---- MODULE Spec2Model ----
(***************************************************************************)
(* Currency swap form (App component): price-feed normalisation, the      *)
(* quote and validation engine, the two debouncers, the feed load effect  *)
(* and the simulated submission.                                          *)
(*                                                                         *)
(* Representation                                                         *)
(*   - a JavaScript string is a sequence of character codes (ASCII);      *)
(*   - a JavaScript number is a normalised rational <<n, d>> with d > 0;  *)
(*     NaN is <<0, 0>>.  Floating-point rounding is not modelled.         *)
(*   - a JSON value is a record tagged by its typeof in field t.          *)
(*   - timers fire nondeterministically once scheduled (no clock).        *)
(* Toasts and the TokenAvatar image state are view state no modelled      *)
(* handler reads; they are left out.                                      *)
(***************************************************************************)
EXTENDS Integers, Sequences, FiniteSets, TLC

VARIABLES
    tokens,             \* Token[] | null                       (useState, l.162)
    loadErr,            \* string | null                         (l.163)
    tokenIn,            \* Token | null                          (l.164)
    tokenOut,           \* Token | null                          (l.165)
    amountInRaw,        \* text of the amount input              (l.166)
    debouncedAmountIn,  \* state of useDebounced(amountIn, 150)  (l.168)
    amountTimers,       \* pending timers of that debouncer, by the value they carry
    pickerOpen,         \* null | 'in' | 'out'                   (l.170)
    search,             \* text of the search input              (l.171)
    debouncedSearch,    \* state of useDebounced(search, 80)     (l.172)
    searchTimers,       \* pending timers of that debouncer, by the value they carry
    slippageBps,        \* l.174
    settingsOpen,       \* l.175
    isSubmitting,       \* l.177
    submitTimers,       \* number of pending 1200 ms submission timers
    loads,              \* runs of the load effect: [cancelled, done]
    feed,               \* normaliser harness: the input of parsePrices
    parsed,             \* normaliser harness: parsePrices(feed)
    reparsed            \* normaliser harness: parsePrices of that output

appVars == <<tokens, loadErr, tokenIn, tokenOut, amountInRaw, debouncedAmountIn,
             amountTimers, pickerOpen, search, debouncedSearch, searchTimers,
             slippageBps, settingsOpen, isSubmitting, submitTimers, loads>>
harnessVars == <<feed, parsed, reparsed>>
vars == <<appVars, harnessVars>>

Null == [t |-> "null"]

\* pickerOpen and the text of loadErr are TLA+ strings; pickerOpen = null is
PickerClosed == "null"

(***************************************************************************)
(* Numbers                                                                 *)
(***************************************************************************)
\* Euclid's algorithm, as a function so that its arguments are values
GcdOf[a \in Nat, b \in Nat] == IF b = 0 THEN a ELSE GcdOf[b, a % b]

Gcd(a, b) == GcdOf[a, b]

Abs(n) == IF n < 0 THEN -n ELSE n

NaN == <<0, 0>>

\* the number n/d, d > 0, in lowest terms
RatOf[n \in Int, d \in Nat] == LET g == Gcd(Abs(n), d) IN <<n \div g, d \div g>>

Rat(n, d) == RatOf[n, d]

Whole(n) == <<n, 1>>

isFinite(x) == x[2] # 0

\* a subnormal double: k times 2^-1074, the smallest positive double, k # 0.
\* These are the doubles whose spacing is coarse enough for a product to round
\* back onto a factor; every other number is kept exact.
Subnormal(k) == IF k = 0 THEN <<0, 1>> ELSE <<k, 1, 1074>>

isSubnormal(x) == Len(x) = 3

\* n / d rounded to the nearest integer, ties to even (IEEE 754 default), d > 0
RoundHalfEven(n, d) ==
    LET a == Abs(n)
        q == a \div d
        r == a % d
        up == IF 2 * r < d THEN q
              ELSE IF 2 * r > d THEN q + 1
              ELSE IF q % 2 = 0 THEN q ELSE q + 1
    IN IF n < 0 THEN -up ELSE up

\* k * 2^-1074 times the exact number y: the result is rounded to a multiple
\* of 2^-1074 (the products formed here stay in the subnormal range)
Scale(k, y) == Subnormal(RoundHalfEven(k * y[1], y[2]))

\* products and sums are reduced before they are formed, to keep the parts small
Mul(x, y) ==
    IF ~(isFinite(x) /\ isFinite(y)) THEN NaN
    ELSE IF isSubnormal(x) /\ isSubnormal(y) THEN <<0, 1>>
    ELSE IF isSubnormal(x) THEN Scale(x[1], y)
    ELSE IF isSubnormal(y) THEN Scale(y[1], x)
    ELSE LET g1 == Gcd(Abs(x[1]), y[2])
             g2 == Gcd(Abs(y[1]), x[2])
         IN Rat((x[1] \div g1) * (y[1] \div g2), (x[2] \div g2) * (y[2] \div g1))

\* x / y for y # 0
Div(x, y) ==
    IF isFinite(x) /\ isFinite(y) /\ y[1] # 0
    THEN IF y[1] > 0 THEN Mul(x, <<y[2], y[1]>>) ELSE Mul(x, <<-y[2], -y[1]>>)
    ELSE NaN

Lcm(a, b) == (a \div Gcd(a, b)) * b

\* the numerator of x over the denominator L, a multiple of x[2]
Over(x, L) == x[1] * (L \div x[2])

Sub(x, y) ==
    IF isFinite(x) /\ isFinite(y)
    THEN LET L == Lcm(x[2], y[2]) IN Rat(Over(x, L) - Over(y, L), L)
    ELSE NaN

\* the sign of a finite number
Sign(x) == IF x[1] > 0 THEN 1 ELSE IF x[1] < 0 THEN -1 ELSE 0

\* x < y where at least one side is subnormal: a subnormal lies strictly
\* between 0 and every other non-zero number of its sign
LtSubnormal(x, y) ==
    IF isSubnormal(x) /\ isSubnormal(y) THEN x[1] < y[1]
    ELSE IF isSubnormal(x) THEN (IF Sign(y) = 0 THEN Sign(x) < 0 ELSE Sign(y) > 0)
    ELSE (IF Sign(x) = 0 THEN Sign(y) > 0 ELSE Sign(x) < 0)

\* comparisons with NaN are false, as in JavaScript
Lt(x, y) == isFinite(x) /\ isFinite(y)
            /\ IF isSubnormal(x) \/ isSubnormal(y) THEN LtSubnormal(x, y)
               ELSE LET L == Lcm(x[2], y[2]) IN Over(x, L) < Over(y, L)
Le(x, y) == isFinite(x) /\ isFinite(y)
            /\ IF isSubnormal(x) \/ isSubnormal(y) THEN (x = y \/ LtSubnormal(x, y))
               ELSE LET L == Lcm(x[2], y[2]) IN Over(x, L) <= Over(y, L)
Gt(x, y) == Lt(y, x)

Zero == Whole(0)

(***************************************************************************)
(* IEEE doubles of onMax                                                   *)
(***************************************************************************)
\* Natural numbers beyond 32 bits, as little-endian digits in base 2^13 with
\* no leading zero digit (<<>> is 0); a double's 53-bit significand is one.
BigBase == 8192

BigOfNat[n \in Nat] == IF n = 0 THEN <<>> ELSE <<n % BigBase>> \o BigOfNat[n \div BigBase]

BigToNat[a \in Seq(Nat)] == IF a = <<>> THEN 0 ELSE Head(a) + BigBase * BigToNat[Tail(a)]

BigTrim[a \in Seq(Nat)] ==
    IF a # <<>> /\ a[Len(a)] = 0 THEN BigTrim[SubSeq(a, 1, Len(a) - 1)] ELSE a

\* a * s + c, digits not trimmed; s <= 2^17
RECURSIVE BigMulCarry(_, _, _)
BigMulCarry(a, s, c) ==
    IF a = <<>> THEN BigOfNat[c]
    ELSE <<(Head(a) * s + c) % BigBase>>
         \o BigMulCarry(Tail(a), s, (Head(a) * s + c) \div BigBase)

BigMulSmall(a, s) == BigTrim[BigMulCarry(a, s, 0)]

\* <<quotient digits (not trimmed), remainder>> of a by s, s <= 2^17
RECURSIVE BigDivRem(_, _)
BigDivRem(a, s) ==
    IF a = <<>> THEN << <<>>, 0 >>
    ELSE LET hi == BigDivRem(Tail(a), s)
             t == hi[2] * BigBase + Head(a)
         IN << <<t \div s>> \o hi[1], t % s >>

\* a - b for a >= b, digits not trimmed
RECURSIVE BigSubBorrow(_, _, _)
BigSubBorrow(a, b, c) ==
    IF a = <<>> THEN <<>>
    ELSE LET d == BigBase + Head(a) - (IF b = <<>> THEN 0 ELSE Head(b)) - c
         IN <<d % BigBase>>
            \o BigSubBorrow(Tail(a), IF b = <<>> THEN <<>> ELSE Tail(b),
                            IF d < BigBase THEN 1 ELSE 0)

\* a < b on trimmed digits
RECURSIVE BigLt(_, _)
BigLt(a, b) ==
    IF Len(a) # Len(b) THEN Len(a) < Len(b)
    ELSE IF a = <<>> THEN FALSE
    ELSE IF a[Len(a)] # b[Len(b)] THEN a[Len(a)] < b[Len(b)]
    ELSE BigLt(SubSeq(a, 1, Len(a) - 1), SubSeq(b, 1, Len(b) - 1))

\* a * 2^k
RECURSIVE BigShl(_, _)
BigShl(a, k) ==
    IF a = <<>> THEN <<>>
    ELSE IF k >= 13 THEN <<0>> \o BigShl(a, k - 13)
    ELSE BigMulSmall(a, 2^k)

\* a \div 2^k
RECURSIVE BigShr(_, _)
BigShr(a, k) ==
    IF a = <<>> THEN <<>>
    ELSE IF k >= 13 THEN BigShr(Tail(a), k - 13)
    ELSE BigTrim[BigDivRem(a, 2^k)[1]]

RECURSIVE NatBits(_)
NatBits(n) == IF n = 0 THEN 0 ELSE 1 + NatBits(n \div 2)

\* the number of binary digits of a
BigBits(a) == IF a = <<>> THEN 0 ELSE 13 * (Len(a) - 1) + NatBits(a[Len(a)])

\* a / 2^k rounded to the nearest integer, ties to even, k >= 1
BigShrEven(a, k) ==
    LET q1 == BigShr(a, k - 1)
        q == BigShr(q1, 1)
        inexact == BigShl(q1, k - 1) # a
        odd(b) == b # <<>> /\ b[1] % 2 = 1
    IN IF odd(q1) /\ (inexact \/ odd(q)) THEN BigTrim[BigMulCarry(q, 1, 1)] ELSE q

\* A non-negative double is <<m, e>>, the number m * 2^e with m below 2^53 (or
\* 2^53 itself after a carry). DblRound is the rounding every IEEE operation
\* ends with: the exact result m * 2^e to 53 significant bits, nearest, ties
\* to even. No number formed here is near the overflow or subnormal range.
DblRound(m, e) ==
    IF BigBits(m) <= 53 THEN <<m, e>>
    ELSE <<BigShrEven(m, BigBits(m) - 53), e + BigBits(m) - 53>>

\* the double nearest to n / (d1 * d2): a decimal literal or constant of the
\* source; n > 0, d1 and d2 in 1..2^17. The quotient is taken to 78 binary
\* places and a last bit records whether anything was cut off.
DblOfRatio(n, d1, d2) ==
    LET q1 == BigDivRem(BigShl(BigOfNat[n], 78), d1)
        q2 == BigDivRem(BigTrim[q1[1]], d2)
        cut == IF q1[2] # 0 \/ q2[2] # 0 THEN 1 ELSE 0
    IN IF n = 0 THEN << <<>>, 0 >>
       ELSE DblRound(BigTrim[BigMulCarry(BigTrim[q2[1]], 2, cut)], -79)

\* both significands over the smaller exponent
DblAlign(x, y) ==
    LET e == IF x[2] < y[2] THEN x[2] ELSE y[2]
    IN <<BigShl(x[1], x[2] - e), BigShl(y[1], y[2] - e), e>>

\* x - y for x >= y
DblSub(x, y) ==
    LET a == DblAlign(x, y) IN DblRound(BigTrim[BigSubBorrow(a[1], a[2], 0)], a[3])

\* x * (s1 * s2) for naturals s1, s2 <= 2^17 whose product is a double
DblMulNat(x, s1, s2) == DblRound(BigMulSmall(BigMulSmall(x[1], s1), s2), x[2])

\* Math.floor(x) of a double below 2^31
DblFloor(x) ==
    IF x[2] >= 0 THEN BigToNat[BigShl(x[1], x[2])] ELSE BigToNat[BigShr(x[1], -x[2])]

\* Math.floor((balance - 0.000001) * 1e6) for a balance n/d of pseudoBalance
\* (d divides 100) or the balance 0 of a symbol not in the map
MaxUnits(balance) ==
    LET b == DblOfRatio(balance[1], balance[2], 1)
        c == DblOfRatio(1, 1000, 1000)
        ab == DblAlign(b, c)
        neg == DblMulNat(DblSub(c, b), 1000, 1000)
        whole == neg[2] >= 0 \/ BigShl(BigShr(neg[1], -neg[2]), -neg[2]) = neg[1]
    IN IF BigLt(ab[1], ab[2])
       THEN (IF whole THEN -DblFloor(neg) ELSE -(DblFloor(neg) + 1))
       ELSE DblFloor(DblMulNat(DblSub(b, c), 1000, 1000))

(***************************************************************************)
(* Strings                                                                 *)
(***************************************************************************)
\* character codes used below: 32 ' ', 37 '%', 43 '+', 44 ',', 45 '-', 46 '.',
\* 48..57 '0'..'9', 65..90 'A'..'Z', 97..122 'a'..'z'
IsSpace(c) == c \in {9, 10, 11, 12, 13, 32}
IsDigit(c) == c \in 48..57
IsLower(c) == c \in 97..122
IsUpper(c) == c \in 65..90

RECURSIVE trimStart(_)
trimStart(s) == IF s # <<>> /\ IsSpace(Head(s)) THEN trimStart(Tail(s)) ELSE s

RECURSIVE trimEnd(_)
trimEnd(s) == IF s # <<>> /\ IsSpace(s[Len(s)])
              THEN trimEnd(SubSeq(s, 1, Len(s) - 1)) ELSE s

\* String.prototype.trim
trimOf[s \in Seq(Nat)] == trimEnd(trimStart(s))

trim(s) == trimOf[s]

\* String.prototype.toUpperCase
toUpperCase(s) == [i \in 1..Len(s) |-> IF IsLower(s[i]) THEN s[i] - 32 ELSE s[i]]

\* String.prototype.includes
includes(s, q) == \E i \in 0..(Len(s) - Len(q)) : SubSeq(s, i + 1, i + Len(q)) = q

\* v.replace(/,/g, '')
removeCommas(s) == SelectSeq(s, LAMBDA c : c # 44)

\* a.localeCompare(b) < 0 on strings of digits and upper-case letters, where
\* the collation order is the order of the codes
RECURSIVE localeLess(_, _)
localeLess(a, b) ==
    IF b = <<>> THEN FALSE
    ELSE IF a = <<>> THEN TRUE
    ELSE IF Head(a) # Head(b) THEN Head(a) < Head(b)
    ELSE localeLess(Tail(a), Tail(b))

\* the value of a string of digits
DigitsValueOf[s \in Seq(Nat)] ==
    IF s = <<>> THEN 0
    ELSE 10 * DigitsValueOf[SubSeq(s, 1, Len(s) - 1)] + (s[Len(s)] - 48)

DigitsValue(s) == DigitsValueOf[s]

RECURSIVE Pow10(_)
Pow10(k) == IF k = 0 THEN 1 ELSE 10 * Pow10(k - 1)

AllDigits(s) == \A i \in 1..Len(s) : IsDigit(s[i])

\* the unsigned decimal literals digits, digits.digits, digits. and .digits
DecimalValueOf[s \in Seq(Nat)] ==
    LET dots == {i \in 1..Len(s) : s[i] = 46} IN
    IF dots = {} THEN (IF s # <<>> /\ AllDigits(s) THEN Whole(DigitsValue(s)) ELSE NaN)
    ELSE IF Cardinality(dots) > 1 THEN NaN
    ELSE LET p == CHOOSE i \in dots : TRUE
             ip == SubSeq(s, 1, p - 1)
             fp == SubSeq(s, p + 1, Len(s))
         IN IF AllDigits(ip) /\ AllDigits(fp) /\ (ip # <<>> \/ fp # <<>>)
            THEN Rat(DigitsValue(ip) * Pow10(Len(fp)) + DigitsValue(fp), Pow10(Len(fp)))
            ELSE NaN

DecimalValue(s) == DecimalValueOf[s]

\* the double nearest to m * 10^e. Small exponents are exact. From e = -320
\* down the value is subnormal, a multiple of 2^-1074 = 4.9406564584e-324:
\* 10^-324 is 0.20240225 of it, and m * 10^e is rounded to the nearest
\* multiple (5e-324 is the smallest positive double, 1e-400 is 0). Above
\* 10^308 the value is Infinity, which no caller tells from NaN. Exponents
\* between these ranges are not among the inputs drawn below.
TimesPow10(m, e) ==
    IF m[1] = 0 THEN <<0, 1>>
    ELSE IF e >= 0 /\ e <= 6 THEN Rat(m[1] * Pow10(e), m[2])
    ELSE IF e < 0 /\ e >= -6 THEN Rat(m[1], m[2] * Pow10(-e))
    ELSE IF e <= -320 /\ e >= -324
         THEN Subnormal(RoundHalfEven(m[1] * 20240225 * Pow10(e + 324), m[2] * 100000000))
    ELSE IF e < -324 THEN <<0, 1>>
    ELSE NaN

\* an unsigned literal with an optional exponent part: decimal e [+-] digits
UnsignedValueOf[s \in Seq(Nat)] ==
    LET es == {i \in 1..Len(s) : s[i] \in {101, 69}} IN
    IF es = {} THEN DecimalValue(s)
    ELSE IF Cardinality(es) > 1 THEN NaN
    ELSE LET p == CHOOSE i \in es : TRUE
             m == DecimalValue(SubSeq(s, 1, p - 1))
             x == SubSeq(s, p + 1, Len(s))
             signed == x # <<>> /\ Head(x) \in {43, 45}
             digits == IF signed THEN Tail(x) ELSE x
         IN IF ~isFinite(m) \/ digits = <<>> \/ ~AllDigits(digits) THEN NaN
            ELSE IF signed /\ Head(x) = 45 THEN TimesPow10(m, -DigitsValue(digits))
            ELSE TimesPow10(m, DigitsValue(digits))

UnsignedValue(s) == UnsignedValueOf[s]

\* Number(s) for a string s: white space is trimmed, the empty string is 0, a
\* signed decimal literal is its value, anything else is NaN (hex literals and
\* the word Infinity are outside the alphabet of the inputs drawn below)
NumberOf[s \in Seq(Nat)] ==
    LET t == trim(s) IN
    IF t = <<>> THEN Zero
    ELSE IF Head(t) = 45
         THEN LET u == UnsignedValue(Tail(t))
              IN IF ~isFinite(u) THEN NaN
                 ELSE IF isSubnormal(u) THEN Subnormal(-u[1])
                 ELSE Rat(-u[1], u[2])
    ELSE IF Head(t) = 43 THEN UnsignedValue(Tail(t))
    ELSE UnsignedValue(t)

Number(s) == NumberOf[s]

\* Number.isFinite(n) ? n : NaN
finiteOrNaN[n \in Seq(Int)] == IF isFinite(n) THEN n ELSE NaN

safeParseNumber(v) ==
    LET cleaned == trim(removeCommas(v)) IN
    IF cleaned = <<>> THEN NaN
    ELSE finiteOrNaN[Number(cleaned)]

RECURSIVE NatToString(_)
NatToString(n) == IF n < 10 THEN <<48 + n>>
                  ELSE NatToString(n \div 10) \o <<48 + (n % 10)>>

RECURSIVE FracDigits(_, _)
\* the k decimal places of n / 10^k, trailing zeros dropped
FracDigits(n, k) ==
    IF k = 0 \/ n = 0 THEN <<>>
    ELSE <<48 + (n \div Pow10(k - 1))>> \o FracDigits(n % Pow10(k - 1), k - 1)

\* String(x) for a finite x >= 0 whose denominator divides 10^6
NumberToString(x) ==
    LET micro == x[1] * (1000000 \div x[2])
        ip == micro \div 1000000
        fp == micro % 1000000
    IN IF fp = 0 THEN NatToString(ip)
       ELSE NatToString(ip) \o <<46>> \o FracDigits(fp, 6)

(***************************************************************************)
(* JSON values                                                             *)
(***************************************************************************)
Undef == [t |-> "undefined"]
JNull == Null
Num(x) == [t |-> "number", v |-> x]
Str(s) == [t |-> "string", v |-> s]
Bool(b) == [t |-> "boolean", v |-> b]
\* an object read by property name: f maps the names it has to their values
Rec(f) == [t |-> "object", f |-> f]
\* an object read by Object.entries: its <<key, value>> pairs in iteration order
Obj(entries) == [t |-> "object", entries |-> entries]
Arr(items) == [t |-> "array", items |-> items]

\* o.name for a non-null o; a primitive has none of the properties read here
Get(o, name) ==
    IF o.t = "object" /\ "f" \in DOMAIN o /\ name \in DOMAIN o.f THEN o.f[name] ELSE Undef

\* 'name' in o
HasProp(o, name) == o.t = "object" /\ "f" \in DOMAIN o /\ name \in DOMAIN o.f

\* a ?? b
Coalesce(a, b) == IF a = Undef \/ a = Null THEN b ELSE a

Truthy(v) ==
    CASE v.t \in {"undefined", "null"} -> FALSE
      [] v.t = "boolean" -> v.v
      [] v.t = "number" -> isFinite(v.v) /\ v.v # Zero
      [] v.t = "string" -> v.v # <<>>
      [] OTHER -> TRUE

\* String(v) for the truthy values met as symbols
StringOf(v) ==
    CASE v.t = "string" -> v.v
      [] v.t = "number" ->
            IF Lt(v.v, Zero) THEN <<45>> \o NumberToString(<<-v.v[1], v.v[2]>>)
            ELSE NumberToString(v.v)
      [] v.t = "boolean" -> <<116, 114, 117, 101>>
      [] OTHER -> <<91, 111, 98, 106, 101, 99, 116, 32, 79, 98, 106, 101, 99, 116, 93>>

(***************************************************************************)
(* iconUrl, pseudoBalance                                                  *)
(***************************************************************************)
Unreserved(c) == IsDigit(c) \/ IsLower(c) \/ IsUpper(c)
                 \/ c \in {45, 95, 46, 33, 126, 42, 39, 40, 41}

HexDigit(n) == IF n < 10 THEN 48 + n ELSE 55 + n

RECURSIVE encodeURIComponent(_)
encodeURIComponent(s) ==
    IF s = <<>> THEN <<>>
    ELSE (IF Unreserved(Head(s)) THEN <<Head(s)>>
          ELSE <<37, HexDigit(Head(s) \div 16), HexDigit(Head(s) % 16)>>)
         \o encodeURIComponent(Tail(s))

\* the codes of 'https://raw.githubusercontent.com/Switcheo/token-icons/main/tokens/'
IconBase ==
    <<104, 116, 116, 112, 115, 58, 47, 47, 114, 97, 119, 46, 103, 105, 116, 104, 117,
       98, 117, 115, 101, 114, 99, 111, 110, 116, 101, 110, 116, 46, 99, 111, 109, 47,
       83, 119, 105, 116, 99, 104, 101, 111, 47, 116, 111, 107, 101, 110, 45, 105, 99,
       111, 110, 115, 47, 109, 97, 105, 110, 47, 116, 111, 107, 101, 110, 115, 47>>

iconUrl(symbol) == IconBase \o encodeURIComponent(symbol) \o <<46, 115, 118, 103>>

\* (x * 31 + c) >>> 0 on x = hi * 2^16 + lo, kept as <<hi, lo>>
HashStep(x, c) ==
    LET lo == x[2] * 31 + c
        hi == x[1] * 31 + lo \div 65536
    IN <<hi % 65536, lo % 65536>>

RECURSIVE HashFold(_, _)
HashFold(x, s) == IF s = <<>> THEN x ELSE HashFold(HashStep(x, Head(s)), Tail(s))

pseudoBalance(symbol) ==
    LET x == HashFold(<<0, 0>>, symbol)
        m == ((x[1] % 9500) * (65536 % 9500) + x[2]) % 9500
        base == Rat(m, 100)
    IN IF Lt(base, Whole(1)) THEN Whole(1) ELSE base

(***************************************************************************)
(* parsePrices                                                             *)
(***************************************************************************)
Token(symbol, price, icon) == [symbol |-> symbol, price |-> price, iconUrl |-> icon]

\* const symbol = String(symRaw || '').trim()
pushSymbol(symRaw) == trim(IF Truthy(symRaw) THEN StringOf(symRaw) ELSE <<>>)

\* const price = typeof priceRaw === 'string' ? Number(priceRaw) : priceRaw
pushPrice(priceRaw) == IF priceRaw.t = "string" THEN Num(Number(priceRaw.v)) ELSE priceRaw

\* Number.isFinite(v): false for everything that is not a number
NumberIsFinite(v) == v.t = "number" /\ isFinite(v.v)

C7_MutAccepts(symbol, price) ==
    ~(symbol = <<>> \/ ~NumberIsFinite(price) \/ Lt(price.v, Zero))

\* the entry passes `if (!symbol || !Number.isFinite(price) || price <= 0) return`
Accepts(symbol, price) ==
    ~(symbol = <<>> \/ ~NumberIsFinite(price) \/ Le(price.v, Zero))

\* push(symRaw, priceRaw) on the list out
push(out, symRaw, priceRaw) ==
    LET symbol == pushSymbol(symRaw)
        price == pushPrice(priceRaw)
    IN IF Accepts(symbol, price)
       THEN Append(out, Token(symbol, price.v, iconUrl(symbol)))
       ELSE out

\* reading row.currency of a null or undefined row is a TypeError
RowThrows(row) == row.t \in {"null", "undefined"}

\* the arguments of the call of push for a row of an array: l.55
RowArgs(row) == <<Coalesce(Get(row, "currency"), Get(row, "symbol")), Get(row, "price")>>

\* the arguments of the call of push for an entry [k, v] of an object: l.57-60
EntryArgs(e) ==
    IF Truthy(e[2]) /\ e[2].t = "object" /\ HasProp(e[2], "price")
    THEN <<Str(e[1]), Get(e[2], "price")>>
    ELSE <<Str(e[1]), e[2]>>

\* the calls of push, in order, for data that does not throw: l.54-61
Calls(data) ==
    IF data.t = "array" THEN [i \in 1..Len(data.items) |-> RowArgs(data.items[i])]
    ELSE IF data.t = "object" THEN [i \in 1..Len(data.entries) |-> EntryArgs(data.entries[i])]
    ELSE <<>>

RECURSIVE pushAll(_, _)
pushAll(out, calls) ==
    IF calls = <<>> THEN out
    ELSE pushAll(push(out, Head(calls)[1], Head(calls)[2]), Tail(calls))

\* the list out after the loops
Pushed(data) == pushAll(<<>>, Calls(data))

KeyIndex(m, k) == {i \in 1..Len(m) : m[i].symbol = k}

C5_MutMapSet(m, t) ==
    LET k == toUpperCase(t.symbol) IN
    IF KeyIndex(m, k) = {} THEN Append(m, [t EXCEPT !.symbol = k]) ELSE m

\* map.set(t.symbol.toUpperCase(), { ...t, symbol: t.symbol.toUpperCase() }) on a
\* Map kept as the sequence of its values in insertion order
MapSet(m, t) ==
    LET k == toUpperCase(t.symbol)
        at == KeyIndex(m, k)
    IN IF at = {} THEN Append(m, [t EXCEPT !.symbol = k])
       ELSE [m EXCEPT ![CHOOSE i \in at : TRUE] = [t EXCEPT !.symbol = k]]

RECURSIVE MapOf(_, _)
MapOf(m, out) == IF out = <<>> THEN m ELSE MapOf(MapSet(m, Head(out)), Tail(out))

RECURSIVE Insert(_, _)
Insert(sorted, t) ==
    IF sorted = <<>> THEN <<t>>
    ELSE IF localeLess(t.symbol, Head(sorted).symbol) THEN <<t>> \o sorted
    ELSE <<Head(sorted)>> \o Insert(Tail(sorted), t)

RECURSIVE InsertionSort(_, _)
InsertionSort(sorted, list) ==
    IF list = <<>> THEN sorted ELSE InsertionSort(Insert(sorted, Head(list)), Tail(list))

C6_MutSortBySymbol(list) == list

\* [...].sort((a, b) => a.symbol.localeCompare(b.symbol))
SortBySymbol(list) == InsertionSort(<<>>, list)

TypeError == [throws |-> TRUE, message |-> "Cannot read properties of null (reading 'currency')"]

Returned(list) == [throws |-> FALSE, list |-> list]

\* parsePrices(data): what the call returns, or the exception it throws
parsePrices(data) ==
    IF data.t = "array" /\ \E i \in 1..Len(data.items) : RowThrows(data.items[i])
    THEN TypeError
    ELSE Returned(SortBySymbol(MapOf(<<>>, Pushed(data))))

\* a token list handed back to parsePrices as a JSON array
AsFeed(list) ==
    Arr([i \in 1..Len(list) |->
            Rec([symbol |-> Str(list[i].symbol), price |-> Num(list[i].price),
                 iconUrl |-> Str(list[i].iconUrl)])])

(***************************************************************************)
(* Inputs of the normaliser                                                *)
(***************************************************************************)
MaxRows == 3

S_usdt == <<117, 115, 100, 116>>
S_USDT == <<85, 83, 68, 84>>
S_eth == <<101, 116, 104>>
S_ETH == <<69, 84, 72>>
S_SOL == <<83, 79, 76>>
S_padBtc == <<32, 66, 116, 99, 32>>
S_blank == <<32, 32>>
S_abc == <<97, 98, 99>>
S_1_00 == <<49, 46, 48, 48>>
S_7 == <<55>>

RowChoices ==
    { Rec([currency |-> Str(S_usdt), price |-> Str(S_1_00)]),
      Rec([currency |-> Str(S_USDT), price |-> Num(Whole(2))]),
      Rec([symbol |-> Str(S_eth), price |-> Num(Whole(3000))]),
      Rec([currency |-> Str(S_padBtc), symbol |-> Str(S_usdt), price |-> Num(Whole(50000))]),
      Rec([currency |-> Str(<<>>), symbol |-> Str(S_ETH), price |-> Num(Whole(1))]),
      Rec([currency |-> Str(S_blank), price |-> Num(Whole(1))]),
      Rec([currency |-> Str(S_ETH), price |-> Num(Zero)]),
      Rec([currency |-> Str(S_ETH), price |-> Num(Whole(-1))]),
      Rec([currency |-> Str(S_ETH), price |-> Str(S_abc)]),
      Rec([currency |-> Str(S_ETH)]),
      Rec([currency |-> Str(S_ETH), price |-> JNull]),
      Rec([currency |-> JNull, symbol |-> Str(S_SOL), price |-> Str(S_7)]),
      Rec([currency |-> Num(Whole(5)), price |-> Num(Rat(1, 2))]),
      Num(Whole(7)),
      JNull }

KeyChoices == {S_usdt, S_USDT, S_padBtc, <<>>}

ValueChoices ==
    { Num(Whole(2)), Str(S_1_00), Num(Zero), JNull,
      Rec([price |-> Num(Whole(3000))]), Rec([price |-> Str(S_abc)]),
      Rec([volume |-> Num(Whole(9))]) }

SeqsUpTo(S, n) == UNION {[1..k -> S] : k \in 0..n}

DistinctKeys(entries) ==
    \A i, j \in 1..Len(entries) : entries[i][1] = entries[j][1] => i = j

Feeds ==
    {Arr(rows) : rows \in SeqsUpTo(RowChoices, MaxRows)}
    \cup {Obj(es) : es \in {e \in SeqsUpTo(KeyChoices \X ValueChoices, MaxRows) : DistinctKeys(e)}}
    \cup {JNull, Num(Whole(7)), Str(S_abc), Bool(TRUE)}

(***************************************************************************)
(* App: derived values of a render                                         *)
(***************************************************************************)
\* const amountIn = safeParseNumber(amountInRaw)
amountIn == safeParseNumber(amountInRaw)

\* tokens ?? []
tokenList == IF tokens = Null THEN <<>> ELSE tokens.items

\* balances.get(symbol), undefined rendered as Null
balances(symbol) ==
    IF \E i \in 1..Len(tokenList) : tokenList[i].symbol = symbol
    THEN Num(pseudoBalance(symbol)) ELSE Undef

priceIn == IF tokenIn # Null THEN tokenIn.price ELSE NaN
priceOut == IF tokenOut # Null THEN tokenOut.price ELSE NaN

C13_MutRate ==
    IF ~isFinite(priceIn) \/ ~isFinite(priceOut) \/ Le(priceOut, Zero) THEN NaN
    ELSE Div(priceOut, priceIn)

rate ==
    IF ~isFinite(priceIn) \/ ~isFinite(priceOut) \/ Le(priceOut, Zero) THEN NaN
    ELSE Div(priceIn, priceOut)

amountOut ==
    IF ~isFinite(rate) \/ ~isFinite(debouncedAmountIn) THEN NaN
    ELSE IF Le(debouncedAmountIn, Zero) THEN NaN
    ELSE Mul(debouncedAmountIn, rate)

minReceived ==
    IF ~isFinite(amountOut) THEN NaN
    ELSE Mul(amountOut, Sub(Whole(1), Rat(slippageBps, 10000)))

inputUSD == IF isFinite(amountIn) /\ isFinite(priceIn) THEN Mul(amountIn, priceIn) ELSE NaN
outputUSD == IF isFinite(amountOut) /\ isFinite(priceOut) THEN Mul(amountOut, priceOut) ELSE NaN

balanceIn ==
    IF tokenIn # Null
    THEN (IF balances(tokenIn.symbol) = Undef THEN Zero ELSE balances(tokenIn.symbol).v)
    ELSE Zero

Verdict(ok, msg) == [ok |-> ok, msg |-> msg]

C1_MutValidation ==
    IF tokenIn = Null \/ tokenOut = Null THEN Verdict(FALSE, "Pick tokens")
    ELSE IF trim(amountInRaw) = <<>> THEN Verdict(FALSE, "Enter an amount")
    ELSE IF tokenIn.symbol = tokenOut.symbol THEN Verdict(FALSE, "Pick two different tokens")
    ELSE IF ~isFinite(amountIn) \/ Le(amountIn, Zero) THEN Verdict(FALSE, "Enter a valid amount")
    ELSE IF Gt(amountIn, balanceIn) THEN Verdict(FALSE, "Insufficient balance")
    ELSE IF ~isFinite(amountOut) \/ Le(amountOut, Zero) THEN Verdict(FALSE, "Unable to quote price")
    ELSE Verdict(TRUE, "")

validation ==
    IF tokenIn = Null \/ tokenOut = Null THEN Verdict(FALSE, "Pick tokens")
    ELSE IF tokenIn.symbol = tokenOut.symbol THEN Verdict(FALSE, "Pick two different tokens")
    ELSE IF trim(amountInRaw) = <<>> THEN Verdict(FALSE, "Enter an amount")
    ELSE IF ~isFinite(amountIn) \/ Le(amountIn, Zero) THEN Verdict(FALSE, "Enter a valid amount")
    ELSE IF Gt(amountIn, balanceIn) THEN Verdict(FALSE, "Insufficient balance")
    ELSE IF ~isFinite(amountOut) \/ Le(amountOut, Zero) THEN Verdict(FALSE, "Unable to quote price")
    ELSE Verdict(TRUE, "")

C16_MutFilteredTokens ==
    LET q == toUpperCase(trim(search)) IN
    IF q = <<>> THEN tokenList
    ELSE SelectSeq(tokenList, LAMBDA t : includes(t.symbol, q))

filteredTokens ==
    LET q == toUpperCase(trim(debouncedSearch)) IN
    IF q = <<>> THEN tokenList
    ELSE SelectSeq(tokenList, LAMBDA t : includes(t.symbol, q))

\* the swap form is rendered: `!tokens ? skeleton : loadErr ? banner : form`
formShown == tokens # Null /\ loadErr = Null

C2_MutSwapDisabled == ~validation.ok

\* disabled={!validation.ok || isSubmitting}
swapDisabled == ~validation.ok \/ isSubmitting

(***************************************************************************)
(* useDebounced                                                            *)
(***************************************************************************)
C4_MutReschedule(timers, old, new) == IF old = new THEN timers ELSE timers \cup {new}

\* the effect of useDebounced when its value goes from old to new: deps are
\* compared with Object.is, the cleanup clears the timer of the previous run
\* and the effect sets one for the new value
Reschedule(timers, old, new) ==
    IF old = new THEN timers ELSE (timers \ {old}) \cup {new}

(***************************************************************************)
(* App: inputs                                                             *)
(***************************************************************************)
MaxSubmitTimers == 2

\* '', ' ', 'abc', '0', '30', '5e-324' (the smallest positive double)
AmountTexts == {<<>>, <<32>>, S_abc, <<48>>, <<51, 48>>, <<53, 101, 45, 51, 50, 52>>}

\* '', 'r '
SearchTexts == {<<>>, <<114, 32>>}

\* positions of the range input (min 0, max 200)
SlippageChoices == {0, 50, 200}

\* The symbols of the feeds loaded into the App have small simulated balances
\* (CHZ 2.09, RUNE 1, DAI 9.36) and their prices a small ratio, so that a
\* six-decimal Max amount times the rate times the slippage factor is still a
\* fraction of 32-bit parts.
S_CHZ == <<67, 72, 90>>
S_RUNE == <<82, 85, 78, 69>>
S_dai == <<100, 97, 105>>
S_DAI == <<68, 65, 73>>

\* { "RUNE": 2, "CHZ": { "price": 3 } }
FeedTwo ==
    Obj(<< <<S_RUNE, Num(Whole(2))>>, <<S_CHZ, Rec([price |-> Num(Whole(3))])>> >>)

\* [ { currency: 'dai', price: '1.00' }, { currency: 'DAI', price: 2 } ]
FeedOne ==
    Arr(<< Rec([currency |-> Str(S_dai), price |-> Str(S_1_00)]),
           Rec([currency |-> Str(S_DAI), price |-> Num(Whole(2))]) >>)

AppFeeds == {FeedTwo, FeedOne, Arr(<<>>), Arr(<<JNull>>)}

\* what fetch(...) settles to: a rejection, or a response with its status and,
\* when the body is JSON, the parsed body (InvalidBody: res.json() rejects)
InvalidBody == [t |-> "invalid"]

Responses ==
    {[kind |-> "reject"]}
    \cup {[kind |-> "response", ok |-> FALSE, status |-> 500, body |-> InvalidBody]}
    \cup {[kind |-> "response", ok |-> TRUE, status |-> 200, body |-> b] :
             b \in AppFeeds \cup {InvalidBody}}

ErrorMessage(text) == [t |-> "string", text |-> text]

(***************************************************************************)
(* App: the load effect                                                    *)
(***************************************************************************)
Load(cancelled, done) == [cancelled |-> cancelled, done |-> done]

C9_MutTryLoad(res) ==
    IF res.kind = "reject" THEN [throws |-> TRUE, message |-> "Failed to fetch"]
    ELSE IF ~res.ok THEN [throws |-> TRUE, message |-> "HTTP " \o ToString(res.status)]
    ELSE IF res.body = InvalidBody
         THEN [throws |-> TRUE, message |-> "Unexpected token in JSON"]
    ELSE parsePrices(res.body)

\* the try body of the load effect up to `if (cancelled) return`: the list it
\* goes on with, or the exception the catch receives
TryLoad(res) ==
    IF res.kind = "reject" THEN [throws |-> TRUE, message |-> "Failed to fetch"]
    ELSE IF ~res.ok THEN [throws |-> TRUE, message |-> "HTTP " \o ToString(res.status)]
    ELSE IF res.body = InvalidBody
         THEN [throws |-> TRUE, message |-> "Unexpected token in JSON"]
    ELSE LET NonEmpty(r) ==
                 IF r.throws THEN r
                 ELSE IF Len(r.list) = 0
                      THEN [throws |-> TRUE, message |-> "No priced tokens found"]
                 ELSE r
         IN NonEmpty(parsePrices(res.body))

C3_MutApplies(load) == TRUE

\* `if (cancelled) return` lets the run go on
Applies(load) == ~load.cancelled

\* list[i] ?? null
At(list, i) == IF i <= Len(list) THEN list[i] ELSE Null

\* the fetch of run i settles to res, and the rest of the async function runs
FetchSettles(i, res) ==
    /\ i \in 1..Len(loads)
    /\ ~loads[i].done
    /\ loads' = [loads EXCEPT ![i].done = TRUE]
    /\ LET Continue(r) ==
               IF ~Applies(loads[i]) THEN UNCHANGED <<tokens, loadErr, tokenIn, tokenOut>>
               ELSE IF r.throws
                    THEN /\ loadErr' = ErrorMessage(r.message)
                         /\ tokens' = Arr(<<>>)
                         /\ UNCHANGED <<tokenIn, tokenOut>>
                    ELSE /\ tokens' = Arr(r.list)
                         /\ tokenIn' = At(r.list, 1)
                         /\ tokenOut' = Coalesce(At(r.list, 2), At(r.list, 1))
                         /\ UNCHANGED loadErr
       IN Continue(TryLoad(res))
    /\ UNCHANGED <<amountInRaw, debouncedAmountIn, amountTimers, pickerOpen, search,
                   debouncedSearch, searchTimers, slippageBps, settingsOpen,
                   isSubmitting, submitTimers, harnessVars>>

\* React runs the effect's cleanup and the effect once more on the mounted
\* component (StrictMode), before any fetch has settled: cancelled = true for
\* the first run, setLoadErr(null) and a new fetch for the second.  The
\* debounce effects clear and set a timer for the same value.
RerunLoadEffect ==
    /\ Len(loads) = 1
    /\ \A i \in 1..Len(loads) : ~loads[i].done
    /\ loads' = Append([i \in 1..Len(loads) |-> [loads[i] EXCEPT !.cancelled = TRUE]],
                       Load(FALSE, FALSE))
    /\ loadErr' = Null
    /\ UNCHANGED <<tokens, tokenIn, tokenOut, amountInRaw, debouncedAmountIn,
                   amountTimers, pickerOpen, search, debouncedSearch, searchTimers,
                   slippageBps, settingsOpen, isSubmitting, submitTimers, harnessVars>>

(***************************************************************************)
(* App: user actions and timers                                            *)
(***************************************************************************)
\* onChange of the amount input
SetAmountInRaw(text) ==
    /\ formShown
    /\ text # amountInRaw
    /\ amountInRaw' = text
    /\ amountTimers' = Reschedule(amountTimers, amountIn, safeParseNumber(text))
    /\ UNCHANGED <<tokens, loadErr, tokenIn, tokenOut, debouncedAmountIn, pickerOpen,
                   search, debouncedSearch, searchTimers, slippageBps, settingsOpen,
                   isSubmitting, submitTimers, loads, harnessVars>>

\* the values balanceIn takes: 0 and the balances of the tokens AppFeeds load
BalanceValues == {Zero} \cup {pseudoBalance(s) : s \in {S_CHZ, S_RUNE, S_DAI}}

\* String(Math.floor((balanceIn - 0.000001) * 1e6) / 1e6), by balance. The
\* floor n is an integer below 2^27 and n / 1e6 is the double nearest to the
\* decimal n / 10^6, which String() prints back as that decimal; it is kept
\* as the exact n / 10^6.
MaxTextOf == [b \in BalanceValues |-> StringOf(Num(Rat(MaxUnits(b), 1000000)))]

C18_MutMaxText == StringOf(Num(Sub(balanceIn, Rat(-1, 1000000))))

MaxText == MaxTextOf[balanceIn]

onMax ==
    /\ formShown
    /\ IF tokenIn = Null
       THEN UNCHANGED <<amountInRaw, amountTimers>>
       ELSE LET setAmountInRaw(text) ==
                    /\ amountInRaw' = text
                    /\ amountTimers' = Reschedule(amountTimers, amountIn, safeParseNumber(text))
            IN setAmountInRaw(MaxText)
    /\ UNCHANGED <<tokens, loadErr, tokenIn, tokenOut, debouncedAmountIn, pickerOpen,
                   search, debouncedSearch, searchTimers, slippageBps, settingsOpen,
                   isSubmitting, submitTimers, loads, harnessVars>>

onSwapSides ==
    /\ formShown
    /\ tokenIn' = tokenOut
    /\ tokenOut' = tokenIn
    /\ UNCHANGED <<tokens, loadErr, amountInRaw, debouncedAmountIn, amountTimers,
                   pickerOpen, search, debouncedSearch, searchTimers, slippageBps,
                   settingsOpen, isSubmitting, submitTimers, loads, harnessVars>>

\* the token buttons: setSearch(''); setPickerOpen(side)
OpenPicker(side) ==
    /\ formShown
    /\ search' = <<>>
    /\ pickerOpen' = side
    /\ searchTimers' = Reschedule(searchTimers, search, <<>>)
    /\ UNCHANGED <<tokens, loadErr, tokenIn, tokenOut, amountInRaw, debouncedAmountIn,
                   amountTimers, debouncedSearch, slippageBps, settingsOpen,
                   isSubmitting, submitTimers, loads, harnessVars>>

\* onClose of the picker
ClosePicker ==
    /\ pickerOpen # PickerClosed
    /\ pickerOpen' = PickerClosed
    /\ UNCHANGED <<tokens, loadErr, tokenIn, tokenOut, amountInRaw, debouncedAmountIn,
                   amountTimers, search, debouncedSearch, searchTimers, slippageBps,
                   settingsOpen, isSubmitting, submitTimers, loads, harnessVars>>

\* onChange of the search input
SetSearch(text) ==
    /\ pickerOpen # PickerClosed
    /\ text # search
    /\ search' = text
    /\ searchTimers' = Reschedule(searchTimers, search, text)
    /\ UNCHANGED <<tokens, loadErr, tokenIn, tokenOut, amountInRaw, debouncedAmountIn,
                   amountTimers, pickerOpen, debouncedSearch, slippageBps, settingsOpen,
                   isSubmitting, submitTimers, loads, harnessVars>>

\* click on the i-th row of the picker
PickToken(i) ==
    /\ pickerOpen # PickerClosed
    /\ i \in 1..Len(filteredTokens)
    /\ IF pickerOpen = "in"
       THEN tokenIn' = filteredTokens[i] /\ UNCHANGED tokenOut
       ELSE tokenOut' = filteredTokens[i] /\ UNCHANGED tokenIn
    /\ pickerOpen' = PickerClosed
    /\ UNCHANGED <<tokens, loadErr, amountInRaw, debouncedAmountIn, amountTimers, search,
                   debouncedSearch, searchTimers, slippageBps, settingsOpen,
                   isSubmitting, submitTimers, loads, harnessVars>>

OpenSettings ==
    /\ ~settingsOpen
    /\ settingsOpen' = TRUE
    /\ UNCHANGED <<tokens, loadErr, tokenIn, tokenOut, amountInRaw, debouncedAmountIn,
                   amountTimers, pickerOpen, search, debouncedSearch, searchTimers,
                   slippageBps, isSubmitting, submitTimers, loads, harnessVars>>

\* onClose of the settings dialog, and its Save button
CloseSettings ==
    /\ settingsOpen
    /\ settingsOpen' = FALSE
    /\ UNCHANGED <<tokens, loadErr, tokenIn, tokenOut, amountInRaw, debouncedAmountIn,
                   amountTimers, pickerOpen, search, debouncedSearch, searchTimers,
                   slippageBps, isSubmitting, submitTimers, loads, harnessVars>>

\* onChange of the range input: setSlippageBps(Number(e.target.value))
SetSlippage(bps) ==
    /\ settingsOpen
    /\ bps # slippageBps
    /\ slippageBps' = bps
    /\ UNCHANGED <<tokens, loadErr, tokenIn, tokenOut, amountInRaw, debouncedAmountIn,
                   amountTimers, pickerOpen, search, debouncedSearch, searchTimers,
                   settingsOpen, isSubmitting, submitTimers, loads, harnessVars>>

\* click on the Swap button: onSubmit up to its await
onSubmit ==
    /\ formShown
    /\ ~swapDisabled
    /\ ~(~validation.ok \/ tokenIn = Null \/ tokenOut = Null)
    /\ submitTimers < MaxSubmitTimers
    /\ isSubmitting' = TRUE
    /\ submitTimers' = submitTimers + 1
    /\ UNCHANGED <<tokens, loadErr, tokenIn, tokenOut, amountInRaw, debouncedAmountIn,
                   amountTimers, pickerOpen, search, debouncedSearch, searchTimers,
                   slippageBps, settingsOpen, loads, harnessVars>>

C15_MutSubmitResumes ==
    /\ submitTimers > 0
    /\ submitTimers' = submitTimers - 1
    /\ isSubmitting' = FALSE
    /\ UNCHANGED <<tokens, loadErr, tokenIn, tokenOut, amountInRaw, amountTimers,
                   debouncedAmountIn, pickerOpen, search, debouncedSearch, searchTimers,
                   slippageBps, settingsOpen, loads, harnessVars>>

\* the 1200 ms timer fires: onSubmit after its await
SubmitResumes ==
    /\ submitTimers > 0
    /\ submitTimers' = submitTimers - 1
    /\ isSubmitting' = FALSE
    /\ amountInRaw' = <<>>
    /\ amountTimers' = Reschedule(amountTimers, amountIn, safeParseNumber(<<>>))
    /\ UNCHANGED <<tokens, loadErr, tokenIn, tokenOut, debouncedAmountIn, pickerOpen,
                   search, debouncedSearch, searchTimers, slippageBps, settingsOpen,
                   loads, harnessVars>>

\* a timer of useDebounced(amountIn, 150) fires: setDebounced(value)
AmountTimerFires(v) ==
    /\ v \in amountTimers
    /\ amountTimers' = amountTimers \ {v}
    /\ debouncedAmountIn' = v
    /\ UNCHANGED <<tokens, loadErr, tokenIn, tokenOut, amountInRaw, pickerOpen, search,
                   debouncedSearch, searchTimers, slippageBps, settingsOpen,
                   isSubmitting, submitTimers, loads, harnessVars>>

\* a timer of useDebounced(search, 80) fires
SearchTimerFires(v) ==
    /\ v \in searchTimers
    /\ searchTimers' = searchTimers \ {v}
    /\ debouncedSearch' = v
    /\ UNCHANGED <<tokens, loadErr, tokenIn, tokenOut, amountInRaw, debouncedAmountIn,
                   amountTimers, pickerOpen, search, slippageBps, settingsOpen,
                   isSubmitting, submitTimers, loads, harnessVars>>

(***************************************************************************)
(* Specification of the App                                                *)
(***************************************************************************)
\* the state after the first render and its effects
AppInit ==
    /\ tokens = Null
    /\ loadErr = Null
    /\ tokenIn = Null
    /\ tokenOut = Null
    /\ amountInRaw = <<>>
    /\ debouncedAmountIn = NaN
    /\ amountTimers = {NaN}
    /\ pickerOpen = PickerClosed
    /\ search = <<>>
    /\ debouncedSearch = <<>>
    /\ searchTimers = {<<>>}
    /\ slippageBps = 50
    /\ settingsOpen = FALSE
    /\ isSubmitting = FALSE
    /\ submitTimers = 0
    /\ loads = <<Load(FALSE, FALSE)>>

Init == AppInit /\ feed = Null /\ parsed = Null /\ reparsed = Null

Next ==
    \/ RerunLoadEffect
    \/ \E i \in 1..Len(loads), res \in Responses : FetchSettles(i, res)
    \/ \E text \in AmountTexts : SetAmountInRaw(text)
    \/ onMax
    \/ onSwapSides
    \/ \E side \in {"in", "out"} : OpenPicker(side)
    \/ ClosePicker
    \/ \E text \in SearchTexts : SetSearch(text)
    \/ \E i \in 1..Len(filteredTokens) : PickToken(i)
    \/ OpenSettings
    \/ CloseSettings
    \/ \E bps \in SlippageChoices : SetSlippage(bps)
    \/ onSubmit
    \/ SubmitResumes
    \/ \E v \in amountTimers : AmountTimerFires(v)
    \/ \E v \in searchTimers : SearchTimerFires(v)

Spec == Init /\ [][Next]_vars

\* The timer set by window.setTimeout(r, 1200) fires. The step is
\* SubmitResumes, the only step of Next that takes a timer off submitTimers; it
\* is named here by that effect alone.
SubmitTimerFires == submitTimers > 0 /\ submitTimers' = submitTimers - 1

\* a pending submission timer is not left waiting for ever
LiveSpec == Spec /\ WF_submitTimers(SubmitTimerFires)

(***************************************************************************)
(* Specification of the normaliser on its own                              *)
(***************************************************************************)
ParseInit == AppInit /\ feed \in Feeds /\ parsed = Null /\ reparsed = Null

Normalize ==
    /\ parsed = Null
    /\ parsed' = parsePrices(feed)
    /\ UNCHANGED <<feed, reparsed, appVars>>

Renormalize ==
    /\ parsed # Null
    /\ ~parsed.throws
    /\ reparsed = Null
    /\ reparsed' = parsePrices(AsFeed(parsed.list))
    /\ UNCHANGED <<feed, parsed, appVars>>

ParseNext == Normalize \/ Renormalize

ParseSpec == ParseInit /\ [][ParseNext]_vars

(***************************************************************************)
(* Properties of the normaliser (checked under ParseSpec)                  *)
(***************************************************************************)
HasReturned == parsed # Null /\ ~parsed.throws

\* the indices of the accepted entries that fold to the upper-case symbol K
Folding(out, K) == {j \in 1..Len(out) : toUpperCase(out[j].symbol) = K}

Last(S) == CHOOSE j \in S : \A k \in S : k <= j

\* C5: de-duplication is last-wins on the case-folded symbol: for every accepted
\* entry of the feed the output has exactly one token with its upper-case
\* symbol, and that token's price is the price of the last accepted entry, in
\* iteration order, that folds to the same symbol.
C5_LastWins ==
    HasReturned =>
        LET out == Pushed(feed) IN
        \A i \in 1..Len(out) :
            LET K == toUpperCase(out[i].symbol)
                hits == {k \in 1..Len(parsed.list) : parsed.list[k].symbol = K}
            IN /\ Cardinality(hits) = 1
               /\ \A k \in hits : parsed.list[k].price = out[Last(Folding(out, K))].price

\* two accepted entries fold to one symbol with different prices, the later one
\* being the lower in one feed and the higher in another
C5_Witness ==
    /\ HasReturned
    /\ LET out == Pushed(feed) IN
       \E i, j \in 1..Len(out) :
          /\ i < j
          /\ out[i].symbol # out[j].symbol
          /\ toUpperCase(out[i].symbol) = toUpperCase(out[j].symbol)
          /\ Lt(out[j].price, out[i].price)
          /\ \E k \in 1..Len(parsed.list) : parsed.list[k].price = out[j].price

\* C6: the returned list is strictly ascending by symbol, holds no symbol twice,
\* and every symbol in it is upper-case, for arrays and for keyed objects.
C6_SortedUnique ==
    HasReturned =>
        /\ \A i \in 1..(Len(parsed.list) - 1) :
              localeLess(parsed.list[i].symbol, parsed.list[i + 1].symbol)
        /\ \A i, j \in 1..Len(parsed.list) :
              parsed.list[i].symbol = parsed.list[j].symbol => i = j
        /\ \A i \in 1..Len(parsed.list) :
              \A k \in 1..Len(parsed.list[i].symbol) : ~IsLower(parsed.list[i].symbol[k])

\* a keyed object whose accepted entries arrive in descending order
C6_Witness ==
    /\ HasReturned
    /\ feed.t = "object"
    /\ Len(parsed.list) >= 2
    /\ LET out == Pushed(feed) IN
       \E i \in 1..(Len(out) - 1) :
          localeLess(toUpperCase(out[i + 1].symbol), toUpperCase(out[i].symbol))

\* the reasons for which the claim has an entry dropped
C7_Rejected(call) ==
    \/ pushSymbol(call[1]) = <<>>
    \/ ~NumberIsFinite(pushPrice(call[2]))
    \/ Le(pushPrice(call[2]).v, Zero)

\* C7: every token of the output has a non-empty symbol and a finite price > 0
\* and comes from an entry that is not rejected; an entry with an empty symbol,
\* a price that is no finite number or a price <= 0 contributes none.
C7_Rejection ==
    HasReturned =>
        /\ \A k \in 1..Len(parsed.list) :
              /\ parsed.list[k].symbol # <<>>
              /\ isFinite(parsed.list[k].price)
              /\ Gt(parsed.list[k].price, Zero)
              /\ \E i \in 1..Len(Calls(feed)) :
                    /\ ~C7_Rejected(Calls(feed)[i])
                    /\ toUpperCase(pushSymbol(Calls(feed)[i][1])) = parsed.list[k].symbol
                    /\ pushPrice(Calls(feed)[i][2]).v = parsed.list[k].price
        /\ Len(Pushed(feed)) =
              Cardinality({i \in 1..Len(Calls(feed)) : ~C7_Rejected(Calls(feed)[i])})

\* a feed with an entry of price 0, an entry with a blank symbol, an entry with
\* a non-numeric price, and an accepted entry
C7_Witness ==
    /\ HasReturned
    /\ Len(parsed.list) >= 1
    /\ \E i, j \in 1..Len(Calls(feed)) :
          /\ pushSymbol(Calls(feed)[i][1]) # <<>>
          /\ NumberIsFinite(pushPrice(Calls(feed)[i][2]))
          /\ pushPrice(Calls(feed)[i][2]).v = Zero
          /\ \/ pushSymbol(Calls(feed)[j][1]) = <<>>
             \/ ~NumberIsFinite(pushPrice(Calls(feed)[j][2]))

\* C8: parsePrices returns a list for every input and never throws.
C8_NeverRaises == parsed # Null => ~parsed.throws

\* C10: parsePrices applied to its own output returns that output, equal in
\* symbol, price and icon reference of every token and in order.
C10_Idempotent ==
    reparsed # Null => (~reparsed.throws /\ reparsed.list = parsed.list)

\* C11: the icon reference of every token of the normalised list is iconUrl
\* applied to the token's own upper-case symbol, so feeds that spell a symbol in
\* different letter case give the same icon reference.
C11_IconOfSymbol ==
    HasReturned =>
        \A i \in 1..Len(parsed.list) :
            parsed.list[i].iconUrl = iconUrl(parsed.list[i].symbol)

(***************************************************************************)
(* Properties of the App (checked under Spec)                              *)
(***************************************************************************)
\* the six rules of the validator, each as the condition under which it fails
C1_Fails1 == tokenIn = Null \/ tokenOut = Null
C1_Fails2 == tokenIn # Null /\ tokenOut # Null /\ tokenIn.symbol = tokenOut.symbol
C1_Fails3 == trim(amountInRaw) = <<>>
C1_Fails4 == ~isFinite(amountIn) \/ Le(amountIn, Zero)
C1_Fails5 == Gt(amountIn, balanceIn)
C1_Fails6 == ~isFinite(amountOut) \/ Le(amountOut, Zero)

\* C1: the verdict is that of the lowest-numbered failing rule, and it is ok
\* exactly when all six rules pass.
C1_ValidatorPriority ==
    LET v == validation IN
    IF C1_Fails1 THEN v = Verdict(FALSE, "Pick tokens")
    ELSE IF C1_Fails2 THEN v = Verdict(FALSE, "Pick two different tokens")
    ELSE IF C1_Fails3 THEN v = Verdict(FALSE, "Enter an amount")
    ELSE IF C1_Fails4 THEN v = Verdict(FALSE, "Enter a valid amount")
    ELSE IF C1_Fails5 THEN v = Verdict(FALSE, "Insufficient balance")
    ELSE IF C1_Fails6 THEN v = Verdict(FALSE, "Unable to quote price")
    ELSE v = Verdict(TRUE, "")

\* the same token on both sides and an amount above the balance: rules 2 and 5
\* fail together
C1_Witness ==
    /\ formShown
    /\ C1_Fails2 /\ C1_Fails5 /\ ~C1_Fails3 /\ ~C1_Fails4
    /\ validation.msg = "Pick two different tokens"

\* C2: at most one submission is in flight and none starts while one is
\* outstanding; meanwhile the form, whose inputs are never disabled, stays
\* rendered, so the amount, the token picks and the slippage remain editable.
C2_NoReentrantSubmit ==
    [][/\ submitTimers' <= 1
       /\ isSubmitting' <=> submitTimers' = 1
       /\ isSubmitting' => formShown'
       /\ submitTimers' > submitTimers => ~isSubmitting /\ submitTimers = 0]_vars

\* a submission is outstanding and the amount text is empty: as a submission
\* starts only with a valid amount, the text was edited while it was in flight
C2_Witness == isSubmitting /\ submitTimers = 1 /\ formShown /\ amountInRaw = <<>>

\* C3: when the fetch of a cancelled run of the load effect settles, tokens,
\* tokenIn, tokenOut and loadErr do not change.
C3_CancelledLoadIgnored ==
    [][\A i \in 1..Len(loads) :
          (loads[i].cancelled /\ ~loads[i].done /\ loads'[i].done)
             => UNCHANGED <<tokens, tokenIn, tokenOut, loadErr>>]_vars

\* the fetch of the cancelled run has settled, that of its successor has not,
\* and the App is still loading
C3_Witness ==
    /\ Len(loads) = 2
    /\ loads[1].cancelled /\ loads[1].done
    /\ ~loads[2].cancelled /\ ~loads[2].done
    /\ tokens = Null /\ loadErr = Null

\* one debouncer in a state: at most one timer is pending, it carries the
\* current value, and with no timer pending the output is the current value
C4_Pending(value, debounced, timers) ==
    /\ Cardinality(timers) <= 1
    /\ timers \subseteq {value}
    /\ timers = {} => debounced = value

\* one debouncer in a step: a change of the input leaves the output alone, and
\* the output changes only by the firing of the pending timer, to the value
\* that is current then
C4_Emits(input, input2, value, debounced, debounced2, timers, timers2) ==
    /\ input2 # input => debounced2 = debounced
    /\ debounced2 # debounced =>
          input2 = input /\ debounced2 = value /\ timers = {value} /\ timers2 = {}

\* C4: each debouncer has at most one pending timer, which carries the current
\* value; a change of the value leaves the output alone and replaces the
\* pending timer; the output changes only when that timer fires, to the value
\* current then, so no value of a burst but the last is ever emitted.
C4_DebounceLastOnly ==
    [][/\ C4_Pending(amountIn, debouncedAmountIn, amountTimers)
       /\ C4_Pending(search, debouncedSearch, searchTimers)
       /\ C4_Emits(amountInRaw, amountInRaw', amountIn, debouncedAmountIn,
                   debouncedAmountIn', amountTimers, amountTimers')
       /\ C4_Emits(search, search', search, debouncedSearch, debouncedSearch',
                   searchTimers, searchTimers')]_vars

\* the amount was emitted as 30, then changed: the output still holds 30 and one
\* timer is pending for the new value
C4_Witness ==
    /\ debouncedAmountIn = Whole(30)
    /\ amountIn # debouncedAmountIn
    /\ amountTimers = {amountIn}
    /\ amountInRaw # <<>>

\* the ways in which the claim has a load fail
C9_Fails(res) ==
    \/ res.kind = "reject"
    \/ ~res.ok
    \/ res.body = InvalidBody
    \/ parsePrices(res.body).throws
    \/ parsePrices(res.body).list = <<>>

\* an empty token list comes with a load error, no token picked, no form and
\* no ok verdict
C9_EmptyIsError ==
    tokens = Arr(<<>>) =>
        /\ loadErr # Null
        /\ tokenIn = Null /\ tokenOut = Null
        /\ ~formShown
        /\ ~validation.ok

\* C9: a load that is not cancelled and fails puts the App in the load-error
\* state (loadErr set, tokens empty, tokenIn and tokenOut null); an empty token
\* list always comes with a load error, and the verdict is then not ok.
C9_LoadFailure ==
    [][/\ C9_EmptyIsError'
       /\ \A i \in 1..Len(loads) :
             (~loads[i].cancelled /\ ~loads[i].done /\ loads'[i].done) =>
                \A res \in Responses :
                   (C9_Fails(res) /\ FetchSettles(i, res))
                      => /\ loadErr' # Null
                         /\ tokens' = Arr(<<>>)
                         /\ tokenIn' = Null /\ tokenOut' = Null]_vars

\* the feed was fetched and yielded no token
C9_Witness ==
    /\ tokens = Arr(<<>>)
    /\ loadErr = ErrorMessage("No priced tokens found")
    /\ \E i \in 1..Len(loads) : loads[i].done /\ ~loads[i].cancelled

\* C12: whenever the entered amount is not a finite number > 0 and the debounced
\* amount has caught up with it, amountOut, minReceived, inputUSD and outputUSD
\* are all NaN.
C12_NotQuotableIsNaN ==
    (~(isFinite(amountIn) /\ Gt(amountIn, Zero)) /\ debouncedAmountIn = amountIn) =>
        /\ amountOut = NaN
        /\ minReceived = NaN
        /\ inputUSD = NaN
        /\ outputUSD = NaN

\* C13: in every state where both tokens are selected, the amount parses to a
\* finite number > 0 and no amount debounce timer is pending, rate is
\* price(tokenIn) / price(tokenOut) and amountOut is the entered amountIn
\* multiplied by that rate.
C13_SettledQuote ==
    (/\ tokenIn # Null /\ tokenOut # Null
     /\ isFinite(amountIn) /\ Gt(amountIn, Zero)
     /\ amountTimers = {}) =>
        /\ rate = Div(tokenIn.price, tokenOut.price)
        /\ amountOut = Mul(amountIn, Div(tokenIn.price, tokenOut.price))

\* 30 CHZ at 3 against RUNE at 2, settled: the quote is 45 RUNE
C13_Witness ==
    /\ tokenIn # Null /\ tokenOut # Null
    /\ tokenIn.symbol = S_CHZ /\ tokenOut.symbol = S_RUNE
    /\ amountInRaw = <<51, 48>>
    /\ amountTimers = {}
    /\ amountOut = Whole(45)

\* C14: slippageBps is an integer in [0, 200], and whenever amountOut is defined
\* minReceived <= amountOut, with equality exactly when slippageBps = 0.
C14_SlippageBound ==
    /\ slippageBps \in 0..200
    /\ isFinite(amountOut) =>
          /\ Le(minReceived, amountOut)
          /\ (minReceived = amountOut <=> slippageBps = 0)

\* C15: a submission starts only from a state whose verdict is ok with both
\* tokens selected; when it completes the amount text is the empty string and
\* the verdict is not ok; and every submission in flight eventually completes:
\* at every point of a behaviour a state with isSubmitting = false lies ahead.
C15_SubmissionCompletes ==
    /\ [][(~isSubmitting /\ isSubmitting') =>
              (validation.ok /\ tokenIn # Null /\ tokenOut # Null)]_vars
    /\ [][(isSubmitting /\ ~isSubmitting') =>
              (amountInRaw' = <<>> /\ ~validation'.ok)]_vars
    /\ []<>(~isSubmitting)

\* a submission is in flight and the amount box holds a text whose verdict is
\* not ok: it was typed after the submission started
C15_Witness ==
    /\ isSubmitting /\ submitTimers = 1
    /\ amountInRaw # <<>> /\ ~validation.ok

\* the symbol holds q from some position on, character by character
C16_Contains(symbol, q) ==
    \E k \in 1..(Len(symbol) + 1) :
        \A i \in 1..Len(q) : k + i - 1 <= Len(symbol) /\ symbol[k + i - 1] = q[i]

\* C16: the filtered list is computed from the debounced search text. With q
\* that text trimmed and upper-cased, the rows of the filtered list are rows of
\* the token list taken in increasing position, and the positions taken are
\* every position when q is empty and otherwise exactly the positions whose
\* symbol contains q.
C16_SearchFilter ==
    LET q == toUpperCase(trim(debouncedSearch))
        kept == {j \in 1..Len(tokenList) : q = <<>> \/ C16_Contains(tokenList[j].symbol, q)}
    IN \E f \in [1..Len(filteredTokens) -> 1..Len(tokenList)] :
          /\ \A i, j \in 1..Len(filteredTokens) : i < j => f[i] < f[j]
          /\ \A i \in 1..Len(filteredTokens) : filteredTokens[i] = tokenList[f[i]]
          /\ {f[i] : i \in 1..Len(filteredTokens)} = kept

\* the debounced query 'r ' keeps RUNE out of [CHZ, RUNE] while the search box
\* already holds another text
C16_Witness ==
    /\ debouncedSearch = <<114, 32>> /\ search # debouncedSearch
    /\ Len(tokenList) = 2
    /\ Len(filteredTokens) = 1 /\ filteredTokens[1].symbol = S_RUNE

\* C17: whenever the verdict is ok, amountOut is the amount now in the box
\* times the current rate: the pair a submission would use is one quote.
C17_QuoteAtGate == validation.ok => amountOut = Mul(amountIn, rate)

\* the token is one of the loaded list
C18_Loaded(token) == \E i \in 1..Len(tokenList) : tokenList[i] = token

\* C18: in every state the balance of every token of the loaded list is at
\* least 1 and below 95, and whenever the amount text is the one onMax writes
\* for tokenIn, a token of that list (onMax alone writes such a text, so this
\* covers every state right after it), the text parses to a number > 0 and
\* <= that token's balance and the verdict's reason is none of 'Enter an
\* amount', 'Enter a valid amount' and 'Insufficient balance'; and a step of
\* onMax with no tokenIn leaves the amount text as it was.
C18_MaxNeverOverdraws ==
    /\ [](/\ \A i \in 1..Len(tokenList) :
                /\ Le(Whole(1), pseudoBalance(tokenList[i].symbol))
                /\ Lt(pseudoBalance(tokenList[i].symbol), Whole(95))
          /\ (tokenIn # Null /\ C18_Loaded(tokenIn) /\ amountInRaw = MaxText) =>
                /\ isFinite(amountIn)
                /\ Gt(amountIn, Zero)
                /\ Le(amountIn, pseudoBalance(tokenIn.symbol))
                /\ validation.msg \notin
                       {"Enter an amount", "Enter a valid amount", "Insufficient balance"})
    /\ [][(tokenIn = Null /\ onMax) => amountInRaw' = amountInRaw]_vars

\* Max was pressed with CHZ (balance 2.09) as tokenIn: the text is '2.089998',
\* the sixth decimal lost to the rounding of the double product
C18_Witness ==
    /\ tokenIn # Null /\ tokenIn.symbol = S_CHZ /\ C18_Loaded(tokenIn)
    /\ amountInRaw = <<50, 46, 48, 56, 57, 57, 57, 56>>
    /\ amountInRaw = MaxText

====
